---- MODULE Spec2Model ----
(***************************************************************************)
(* Model of WebStreamer/server/stream_routes.py: the /dl and /video        *)
(* handlers and media_streamer (backend selection, ByteStreamer cache,     *)
(* Range parsing and validation, chunk plan, response), together with the  *)
(* chunk sequencer (ByteStreamer.yield_file) that consumes the plan.       *)
(*                                                                         *)
(* A request task runs atomically between await points.  The only await of *)
(* media_streamer is get_file_properties (line 142); the body generator is *)
(* consumed afterwards, one fetched chunk per step.                        *)
(***************************************************************************)
EXTENDS Integers, Sequences, FiniteSets, TLC

VARIABLES work_loads, class_cache, constructed, task

vars == <<work_loads, class_cache, constructed, task>>

----------------------------------------------------------------------------
(* Bounds *)

NumTasks == 2
NumClients == 2
MaxChunks == 2

(* Program constant: chunk_size = 1024 * 1024 *)
chunk_size == 1048576

Tasks == 1..NumTasks
ConcurrentTasks == Tasks
PlannerTasks == {1}
ClientIds == 0..(NumClients - 1)

----------------------------------------------------------------------------
(* Range header values.  A header value is a sequence of tokens: the       *)
(* literal "bytes=", the dash, decimal digits and a junk character.        *)

DigitChar == <<"0", "1", "2", "3", "4", "5", "6", "7", "8", "9">>
DigitChars == {DigitChar[i] : i \in 1..10}
DigitVal(c) == (CHOOSE i \in 1..10 : DigitChar[i] = c) - 1

RECURSIVE Digits(_)
Digits(n) == IF n < 10 THEN <<DigitChar[n + 1]>>
             ELSE Digits(n \div 10) \o <<DigitChar[(n % 10) + 1]>>

NoRange == [present |-> FALSE, value |-> <<>>]
Hdr(v) == [present |-> TRUE, value |-> v]
BytesRange(f, u) == Hdr(<<"bytes=">> \o Digits(f) \o <<"-">> \o Digits(u))
BytesFrom(f) == Hdr(<<"bytes=">> \o Digits(f) \o <<"-">>)

(* Byte positions around the chunk boundaries, plus the documented example *)
BoundaryPoints ==
    {p \in {k * chunk_size + d : k \in 0..MaxChunks, d \in {-1, 0, 1}} : p >= 0}
ExamplePoints == {500000, 1500000}
Points == BoundaryPoints \cup ExamplePoints
ExampleSizes == {100, 10000000}
PlannerSizes == Points \cup ExampleSizes

MalformedHeaders ==
    { Hdr(<<>>),
      Hdr(<<"bytes=", "-", "5">>),
      Hdr(<<"bytes=", "x", "-", "1">>),
      Hdr(<<"bytes=", "1">>),
      Hdr(<<"bytes=", "1", "-", "2", "-", "3">>),
      Hdr(<<"bytes=", "1", "-", "x">>) }
BareHeaders == { Hdr(<<"0", "-", "0">>), Hdr(<<"1", "bytes=", "-", "1">>) }
PlannerHeaders ==
    {NoRange} \cup MalformedHeaders \cup BareHeaders
      \cup {BytesRange(f, u) : f \in Points, u \in Points}
      \cup {BytesRange(f, u) : f \in ExampleSizes, u \in ExampleSizes}
      \cup {BytesFrom(f) : f \in Points}

ConcurrentHeaders == {NoRange, BytesRange(1, 0)}
ConcurrentSizes == {chunk_size + 1}
ConcurrentRoutes == {"video"}
ConcurrentExceptions == {"InvalidHash"}

Routes == {"dl", "video"}
Exceptions == {"InvalidHash", "FIleNotFound", "AttributeError",
               "BadStatusLine", "ConnectionResetError", "TimeoutError"}

----------------------------------------------------------------------------
(* Range parsing: range_header.replace("bytes=", "").split("-"), int()     *)

StrReplace(s) == SelectSeq(s, LAMBDA c : c # "bytes=")

RECURSIVE StrSplit(_)
StrSplit(s) ==
    IF s = <<>> THEN << <<>> >>
    ELSE LET rest == StrSplit(Tail(s)) IN
         IF Head(s) = "-" THEN << <<>> >> \o rest
         ELSE << <<Head(s)>> \o rest[1] >> \o Tail(rest)

IsInt(s) == s # <<>> /\ \A i \in 1..Len(s) : s[i] \in DigitChars

RECURSIVE IntOf(_)
IntOf(s) == IF s = <<>> THEN 0
            ELSE IntOf(SubSeq(s, 1, Len(s) - 1)) * 10 + DigitVal(s[Len(s)])

Truthy(h) == h.present /\ h.value # <<>>

Raised(e) == [exc |-> e, from_bytes |-> 0, until_bytes |-> 0]
Parsed(f, u) == [exc |-> "None", from_bytes |-> f, until_bytes |-> u]

ParseRange(h, file_size) ==
    LET parts == StrSplit(StrReplace(h.value)) IN
    IF Len(parts) # 2 THEN Raised("ValueError")
    ELSE IF ~IsInt(parts[1]) THEN Raised("ValueError")
    ELSE IF parts[2] # <<>> /\ ~IsInt(parts[2]) THEN Raised("ValueError")
    ELSE Parsed(IntOf(parts[1]),
                IF parts[2] # <<>> THEN IntOf(parts[2]) ELSE file_size - 1)

(* request.http_range of a request without Range header is slice(None,     *)
(* None); with a header that is not bytes=<d>-<d> it raises ValueError.    *)
HttpRange(h, file_size) ==
    IF h.present THEN Raised("ValueError") ELSE Parsed(0, file_size - 1)

RangeOf(h, file_size) ==
    IF Truthy(h) THEN ParseRange(h, file_size) ELSE HttpRange(h, file_size)

----------------------------------------------------------------------------
(* Range validation and chunk plan *)

RangeNotSatisfiable(from_bytes, until_bytes, file_size) ==
    (until_bytes > file_size) \/ (from_bytes < 0) \/ (until_bytes < from_bytes)

Min(a, b) == IF a < b THEN a ELSE b
Max(a, b) == IF a > b THEN a ELSE b
Ceil(a, b) == (a + b - 1) \div b
Floor(a, b) == a \div b

Clamp(until_bytes, file_size) == Min(until_bytes, file_size - 1)

Offset(from_bytes) == from_bytes - (from_bytes % chunk_size)
FirstPartCut(from_bytes) == from_bytes - Offset(from_bytes)
LastPartCutNoPlusOne(until_bytes) == until_bytes % chunk_size
LastPartCut(until_bytes) == (until_bytes % chunk_size) + 1
ReqLength(from_bytes, until_bytes) == until_bytes - from_bytes + 1
PartCount(from_bytes, until_bytes) ==
    Ceil(until_bytes, chunk_size) - Floor(Offset(from_bytes), chunk_size)

NoPlan == [offset |-> 0, first_part_cut |-> 0, last_part_cut |-> 0,
           part_count |-> 0]
ChunkPlan(from_bytes, until_bytes) ==
    [offset |-> Offset(from_bytes),
     first_part_cut |-> FirstPartCut(from_bytes),
     last_part_cut |-> LastPartCut(until_bytes),
     part_count |-> PartCount(from_bytes, until_bytes)]

----------------------------------------------------------------------------
(* Responses *)

NoContentRange == [unit |-> "none", from |-> 0, until |-> 0, size |-> 0]
StarRange(file_size) ==
    [unit |-> "bytes */", from |-> 0, until |-> 0, size |-> file_size]
ByteRange(f, u, file_size) ==
    [unit |-> "bytes", from |-> f, until |-> u, size |-> file_size]

NoResponse ==
    [status |-> 0, content_range |-> NoContentRange, content_length |-> 0,
     body |-> "none", disposition |-> "none", x_frame_options |-> FALSE,
     plan |-> NoPlan]

(* web.HTTPForbidden / HTTPNotFound / HTTPInternalServerError(text=...) *)
HttpError(code) == [NoResponse EXCEPT !.status = code, !.body = "text"]

Response416(file_size) ==
    [NoResponse EXCEPT !.status = 416, !.body = "text",
                       !.content_range = StarRange(file_size)]

StreamResponse(h, from_bytes, until_bytes, file_size, is_video) ==
    [status |-> IF Truthy(h) THEN 206 ELSE 200,
     content_range |-> ByteRange(from_bytes, until_bytes, file_size),
     content_length |-> ReqLength(from_bytes, until_bytes),
     body |-> "stream",
     disposition |-> IF is_video THEN "inline" ELSE "attachment",
     x_frame_options |-> is_video,
     plan |-> ChunkPlan(from_bytes, until_bytes)]

(* Variant that builds the body generator before the range check *)
MediaResponseEager(h, file_size, is_video) ==
    LET r == RangeOf(h, file_size) IN
    IF r.exc # "None" THEN [range |-> r, response |-> NoResponse]
    ELSE LET resp == StreamResponse(h, r.from_bytes,
                                    Clamp(r.until_bytes, file_size),
                                    file_size, is_video) IN
         IF RangeNotSatisfiable(r.from_bytes, r.until_bytes, file_size)
         THEN [range |-> r,
               response |-> [resp EXCEPT !.status = 416,
                                !.content_range = StarRange(file_size)]]
         ELSE [range |-> r, response |-> resp]

(* media_streamer after get_file_properties has returned (lines 143-196) *)
MediaResponse(h, file_size, is_video) ==
    LET r == RangeOf(h, file_size) IN
    IF r.exc # "None" THEN [range |-> r, response |-> NoResponse]
    ELSE IF RangeNotSatisfiable(r.from_bytes, r.until_bytes, file_size)
         THEN [range |-> r, response |-> Response416(file_size)]
    ELSE [range |-> r,
          response |-> StreamResponse(h, r.from_bytes,
                                      Clamp(r.until_bytes, file_size),
                                      file_size, is_video)]

(* except clauses of download_handler / video_stream_handler *)
SilentExceptions == {"AttributeError", "BadStatusLine", "ConnectionResetError"}
HandlerResponse(e) ==
    IF e = "InvalidHash" THEN HttpError(403)
    ELSE IF e = "FIleNotFound" THEN HttpError(404)
    ELSE IF e \in SilentExceptions THEN NoResponse
    ELSE HttpError(500)

----------------------------------------------------------------------------
(* Backend selection: min(work_loads, key=work_loads.get).  work_loads is  *)
(* a dict; it is modelled as the sequence of its items in iteration order. *)

RECURSIVE MinKeyFrom(_, _, _)
MinKeyFrom(loads, i, best) ==
    IF i > Len(loads) THEN loads[best].key
    ELSE MinKeyFrom(loads, i + 1,
                    IF loads[i].load < loads[best].load THEN i ELSE best)

(* Variant that keeps the last minimum instead of the first *)
RECURSIVE MinKeyFromLast(_, _, _)
MinKeyFromLast(loads, i, best) ==
    IF i > Len(loads) THEN loads[best].key
    ELSE MinKeyFromLast(loads, i + 1,
                        IF loads[i].load <= loads[best].load THEN i ELSE best)
SelectIndexLast(loads) == MinKeyFromLast(loads, 2, 1)

SelectIndex(loads) == MinKeyFrom(loads, 2, 1)

multi_clients == [k \in ClientIds |-> <<"Client", k>>]
Clients == {multi_clients[k] : k \in ClientIds}

(* Variant that looks the session up under the index instead of the client *)
CacheHitWrongKey(client) == <<"Index", client[2]>> \in DOMAIN class_cache
CacheHit(client) == client \in DOMAIN class_cache

AddLoad(loads, k, d) ==
    [i \in 1..Len(loads) |->
        IF loads[i].key = k THEN [loads[i] EXCEPT !.load = @ + d] ELSE loads[i]]

----------------------------------------------------------------------------
(* Chunk sequencer: the chunk at offset is always fetched and yielded with *)
(* its leading first_part_cut bytes removed; the chunk numbered part_count *)
(* is cut to its first last_part_cut bytes; a single-chunk plan has both   *)
(* cuts applied; the chunks in between pass unmodified.  The last chunk of *)
(* the object is shorter than chunk_size.                                  *)

ChunkLen(file_size, chunk_offset) ==
    Max(0, Min(chunk_size, file_size - chunk_offset))
SliceLen(len, a, b) == Max(0, Min(b, len) - Min(a, len))

PartLen(plan, file_size, current_part) ==
    LET len == ChunkLen(file_size,
                        plan.offset + (current_part - 1) * chunk_size) IN
    IF plan.part_count = 1
        THEN SliceLen(len, plan.first_part_cut, plan.last_part_cut)
    ELSE IF current_part = 1 THEN SliceLen(len, plan.first_part_cut, len)
    ELSE IF current_part = plan.part_count
        THEN SliceLen(len, 0, plan.last_part_cut)
    ELSE len

----------------------------------------------------------------------------
(* State *)

IdleTask ==
    [pc |-> "idle", route |-> "none", range_header |-> NoRange, index |-> 0,
     tg_connect |-> 0, loads_seen |-> <<>>, file_size |-> 0, exc |-> "None",
     resolved |-> FALSE, from_bytes |-> 0, until_bytes |-> 0,
     response |-> NoResponse, current_part |-> 1, sent |-> 0]

Orders == {s \in [1..NumClients -> ClientIds] :
              \A i, j \in 1..NumClients : i # j => s[i] # s[j]}

Init ==
    /\ \E order \in Orders :
          work_loads = [i \in 1..NumClients |-> [key |-> order[i], load |-> 0]]
    /\ class_cache = <<>>
    /\ constructed = [c \in Clients |-> 0]
    /\ task = [t \in Tasks |-> IdleTask]

(* Handler entry up to the await of get_file_properties (lines 126-142) *)
Begin(t, route, h) ==
    /\ task[t].pc = "idle"
    /\ LET index == SelectIndex(work_loads)
           faster_client == multi_clients[index]
       IN IF CacheHit(faster_client)
          THEN /\ task' = [task EXCEPT ![t] =
                     [@ EXCEPT !.pc = "resolving", !.route = route,
                               !.range_header = h, !.index = index,
                               !.loads_seen = work_loads,
                               !.tg_connect = class_cache[faster_client]]]
               /\ UNCHANGED <<class_cache, constructed>>
          ELSE LET session == constructed[faster_client] + 1 IN
               /\ task' = [task EXCEPT ![t] =
                     [@ EXCEPT !.pc = "resolving", !.route = route,
                               !.range_header = h, !.index = index,
                               !.loads_seen = work_loads,
                               !.tg_connect = session]]
               /\ class_cache' =
                     [c \in (DOMAIN class_cache) \cup {faster_client} |->
                         IF c = faster_client THEN session ELSE class_cache[c]]
               /\ constructed' =
                     [constructed EXCEPT ![faster_client] = session]
    /\ UNCHANGED work_loads

(* get_file_properties returns; the rest of media_streamer runs *)
ResolveReturns(t, file_size) ==
    /\ task[t].pc = "resolving"
    /\ LET r == MediaResponse(task[t].range_header, file_size,
                              task[t].route = "video")
           resp == IF r.range.exc = "None" THEN r.response
                   ELSE HandlerResponse(r.range.exc)
       IN task' = [task EXCEPT ![t] =
              [@ EXCEPT !.file_size = file_size, !.exc = r.range.exc,
                        !.resolved = TRUE,
                        !.from_bytes = r.range.from_bytes,
                        !.until_bytes = r.range.until_bytes,
                        !.response = resp,
                        !.pc = IF resp.body = "stream" THEN "responded"
                               ELSE "done"]]
    /\ UNCHANGED <<work_loads, class_cache, constructed>>

(* get_file_properties raises *)
ResolveRaises(t, e) ==
    /\ task[t].pc = "resolving"
    /\ task' = [task EXCEPT ![t] =
          [@ EXCEPT !.exc = e, !.response = HandlerResponse(e), !.pc = "done"]]
    /\ UNCHANGED <<work_loads, class_cache, constructed>>

(* The server starts consuming the body generator *)
StreamOpen(t) ==
    /\ task[t].pc = "responded"
    /\ task' = [task EXCEPT ![t] = [@ EXCEPT !.pc = "streaming"]]
    /\ work_loads' = AddLoad(work_loads, task[t].index, 1)
    /\ UNCHANGED <<class_cache, constructed>>

FetchChunk(t) ==
    /\ task[t].pc = "streaming"
    /\ \/ task[t].current_part = 1
       \/ task[t].current_part <= task[t].response.plan.part_count
    /\ task' = [task EXCEPT ![t] =
          [@ EXCEPT !.sent = @ + PartLen(task[t].response.plan,
                                         task[t].file_size,
                                         task[t].current_part),
                    !.current_part = @ + 1]]
    /\ UNCHANGED <<work_loads, class_cache, constructed>>

StreamClose(t) ==
    /\ task[t].pc = "streaming"
    /\ task[t].current_part > 1
    /\ task[t].current_part > task[t].response.plan.part_count
    /\ task' = [task EXCEPT ![t] = [@ EXCEPT !.pc = "done"]]
    /\ work_loads' = AddLoad(work_loads, task[t].index, -1)
    /\ UNCHANGED <<class_cache, constructed>>

(* The connection handles its next request *)
Finish(t) ==
    /\ task[t].pc = "done"
    /\ task' = [task EXCEPT ![t] = IdleTask]
    /\ UNCHANGED <<work_loads, class_cache, constructed>>

Next ==
    \E t \in ConcurrentTasks :
        \/ \E route \in ConcurrentRoutes, h \in ConcurrentHeaders :
              Begin(t, route, h)
        \/ \E file_size \in ConcurrentSizes : ResolveReturns(t, file_size)
        \/ \E e \in ConcurrentExceptions : ResolveRaises(t, e)
        \/ StreamOpen(t)
        \/ FetchChunk(t)
        \/ StreamClose(t)
        \/ Finish(t)

Spec == Init /\ [][Next]_vars

NextPlanner ==
    \E t \in PlannerTasks :
        \/ \E route \in Routes, h \in PlannerHeaders : Begin(t, route, h)
        \/ \E file_size \in PlannerSizes : ResolveReturns(t, file_size)
        \/ \E e \in Exceptions : ResolveRaises(t, e)
        \/ StreamOpen(t)
        \/ FetchChunk(t)
        \/ StreamClose(t)
        \/ Finish(t)

SpecPlanner == Init /\ [][NextPlanner]_vars

TypeOK ==
    /\ \A t \in Tasks : task[t].pc \in
          {"idle", "resolving", "responded", "streaming", "done"}
    /\ \A c \in Clients : constructed[c] \in 0..NumTasks

----------------------------------------------------------------------------
(* Properties *)

Answered(t) == task[t].pc \in {"responded", "streaming", "done"}
Planned(t) == Answered(t) /\ task[t].resolved /\ task[t].exc = "None"
Streamed(t) == Planned(t) /\ task[t].response.status \in {200, 206}

(* C1: a resolved request whose parsed range has until >= size, from < 0   *)
(* or until < from is answered 416 with Content-Range "bytes * /size" and  *)
(* an empty body, the boundary until = size included.                      *)
C1_Unsatisfiable416 ==
    \A t \in Tasks :
        (Planned(t) /\ (\/ task[t].until_bytes >= task[t].file_size
                        \/ task[t].from_bytes < 0
                        \/ task[t].until_bytes < task[t].from_bytes))
        => /\ task[t].response.status = 416
           /\ task[t].response.content_range = StarRange(task[t].file_size)
           /\ task[t].response.body = "none"

(* C2: for 0 <= from <= until < size, the sequencer run to completion on   *)
(* the computed plan yields exactly until - from + 1 bytes, which is also  *)
(* the Content-Length.                                                     *)
C2_BytesMatchLength ==
    \A t \in Tasks :
        (/\ Streamed(t) /\ task[t].pc = "done"
         /\ 0 <= task[t].from_bytes
         /\ task[t].from_bytes <= task[t].until_bytes
         /\ task[t].until_bytes < task[t].file_size)
        => /\ task[t].sent = task[t].until_bytes - task[t].from_bytes + 1
           /\ task[t].response.content_length = task[t].sent

(* C3: a resolved request without Range header is answered 200 with the    *)
(* full-object Content-Range and Content-Length = size, for every size >= 0 *)
C3_NoRangeIs200 ==
    \A t \in Tasks :
        (Planned(t) /\ ~task[t].range_header.present)
        => /\ task[t].response.status = 200
           /\ task[t].response.content_range =
                 ByteRange(0, task[t].file_size - 1, task[t].file_size)
           /\ task[t].response.content_length = task[t].file_size

(* C4: InvalidHash ends in 403, FIleNotFound in 404, an unsatisfiable      *)
(* range in 416 and every failure that is not a silently dropped network   *)
(* condition in 500; none of them ends in 200/206 or without a response.   *)
C4_FailureStatus ==
    \A t \in Tasks : Answered(t) =>
        /\ task[t].exc = "InvalidHash" => task[t].response.status = 403
        /\ task[t].exc = "FIleNotFound" => task[t].response.status = 404
        /\ (Planned(t) /\ (\/ task[t].until_bytes >= task[t].file_size
                           \/ task[t].from_bytes < 0
                           \/ task[t].until_bytes < task[t].from_bytes))
           => task[t].response.status = 416
        /\ task[t].exc \notin
              ({"None", "InvalidHash", "FIleNotFound"} \cup SilentExceptions)
           => task[t].response.status = 500

(* C5: the session of a backend is constructed at most once, class_cache   *)
(* holds exactly that session, and every request that selected the backend *)
(* uses it, under every interleaving of the request tasks.                 *)
C5_OneSessionPerBackend ==
    /\ \A c \in Clients :
          /\ constructed[c] <= 1
          /\ (constructed[c] = 1) <=> (c \in DOMAIN class_cache)
    /\ \A t \in Tasks : task[t].pc # "idle" =>
          /\ multi_clients[task[t].index] \in DOMAIN class_cache
          /\ task[t].tg_connect = class_cache[multi_clients[task[t].index]]
    /\ \A t1, t2 \in Tasks :
          (/\ task[t1].pc # "idle" /\ task[t2].pc # "idle"
           /\ task[t1].index = task[t2].index)
          => task[t1].tg_connect = task[t2].tg_connect

C5_Witness ==
    \E t1, t2 \in Tasks :
        /\ t1 # t2
        /\ task[t1].pc = "resolving" /\ task[t2].pc = "resolving"
        /\ task[t1].index = task[t2].index
        /\ constructed[multi_clients[task[t1].index]] = 1

(* C6: the selected index has the minimum load of the table as it was at   *)
(* the selection and is the first such entry in iteration order; on the    *)
(* non-empty table the selection always yields a key of multi_clients.     *)
C6_FirstMinimumSelected ==
    /\ \A t \in Tasks : task[t].pc # "idle" =>
          \E i \in 1..Len(task[t].loads_seen) :
              /\ task[t].loads_seen[i].key = task[t].index
              /\ \A j \in 1..Len(task[t].loads_seen) :
                    /\ task[t].loads_seen[j].load >= task[t].loads_seen[i].load
                    /\ j < i => task[t].loads_seen[j].load
                                   > task[t].loads_seen[i].load
    /\ Len(work_loads) >= 1
    /\ \E i \in 1..Len(work_loads) :
          /\ work_loads[i].key = SelectIndex(work_loads)
          /\ work_loads[i].key \in DOMAIN multi_clients

C6_Witness ==
    \E t \in Tasks :
        /\ task[t].pc # "idle"
        /\ \E i, j \in 1..Len(task[t].loads_seen) :
              /\ i < j
              /\ task[t].loads_seen[i].key = task[t].index
              /\ task[t].loads_seen[j].load = task[t].loads_seen[i].load
              /\ task[t].loads_seen[j].key < task[t].index

(* C7: every 200/206 response reports 0 <= from <= until < size and a      *)
(* Content-Length of at least 1.                                           *)
C7_ReportedRangeValid ==
    \A t \in Tasks : Streamed(t) =>
        /\ 0 <= task[t].response.content_range.from
        /\ task[t].response.content_range.from
              <= task[t].response.content_range.until
        /\ task[t].response.content_range.until < task[t].file_size
        /\ task[t].response.content_length >= 1

(* C8: the plan handed to the sequencer is the reference plan, with        *)
(* part_count = ceil((until+1)/chunk_size) - floor(offset/chunk_size), and *)
(* has the ChunkPlan shape.                                                *)
C8_ReferencePlan ==
    \A t \in Tasks : Streamed(t) =>
        LET from == task[t].response.content_range.from
            until == task[t].response.content_range.until
            plan == task[t].response.plan
        IN /\ plan.offset = from - (from % chunk_size)
           /\ plan.first_part_cut = from - plan.offset
           /\ plan.last_part_cut = (until % chunk_size) + 1
           /\ plan.part_count = ((until + 1 + chunk_size - 1) \div chunk_size)
                                   - (plan.offset \div chunk_size)
           /\ plan.offset % chunk_size = 0
           /\ plan.offset <= from /\ from < plan.offset + chunk_size
           /\ plan.first_part_cut \in 0..(chunk_size - 1)
           /\ plan.last_part_cut \in 1..chunk_size
           /\ plan.part_count >= 1

ExampleServed(t) ==
    /\ task[t].pc = "done" /\ Planned(t)
    /\ task[t].range_header = BytesRange(500000, 1500000)
    /\ task[t].file_size = 10000000

(* C9: Range bytes=500000-1500000 on size 10000000 gives offset 0,         *)
(* first_cut 500000, last_cut 451665, part_count 2 and 1000001 bytes.      *)
C9_ExampleAsStated ==
    \A t \in Tasks : ExampleServed(t) =>
        /\ task[t].response.plan =
              [offset |-> 0, first_part_cut |-> 500000,
               last_part_cut |-> 451665, part_count |-> 2]
        /\ task[t].sent = 1000001

(* C9 (amended): the same request gives offset 0, first_cut 500000,        *)
(* last_cut 451425, part_count 2 and 1000001 bytes served.                 *)
C9_ExampleAmended ==
    \A t \in Tasks : ExampleServed(t) =>
        /\ task[t].response.plan =
              [offset |-> 0, first_part_cut |-> 500000,
               last_part_cut |-> 451425, part_count |-> 2]
        /\ task[t].sent = 1000001
        /\ task[t].response.content_length = 1000001

C9_Witness == \E t \in Tasks : ExampleServed(t) /\ task[t].current_part = 3

(* C10: a request answered 403, 404 or 416 has no chunk sequence and no    *)
(* chunk fetch; no chunk is fetched before the metadata is resolved and    *)
(* the range has passed the validation.                                    *)
C10_ValidateBeforeFetch ==
    \A t \in Tasks :
        /\ task[t].response.status \in {403, 404, 416}
           => /\ task[t].response.body # "stream"
              /\ task[t].pc \notin {"responded", "streaming"}
              /\ task[t].current_part = 1 /\ task[t].sent = 0
        /\ task[t].pc \in {"idle", "resolving"}
           => task[t].current_part = 1 /\ task[t].response.body = "none"
        /\ (task[t].pc = "streaming" \/ task[t].current_part > 1)
           => /\ Planned(t)
              /\ task[t].until_bytes <= task[t].file_size
              /\ task[t].from_bytes >= 0
              /\ task[t].until_bytes >= task[t].from_bytes

C10_Witness ==
    \E t1, t2 \in Tasks :
        /\ task[t1].pc = "done" /\ task[t1].response.status = 416
        /\ task[t2].pc = "streaming" /\ task[t2].current_part > 1

====
